---- MODULE Spec2Model ----
(***************************************************************************)
(* Model of validate.py: the node-failure impact assessment run.  main()   *)
(* loads the inventory snapshot (session.json) and the catalog             *)
(* (container_info.json), extracts the containers in scope, joins them     *)
(* against the catalog (assess_impact) and enters the report menu.         *)
(*                                                                         *)
(* Python values are modelled as follows: a dict is a function whose       *)
(* DOMAIN is its key set (a record when the keys are fixed), a list is a   *)
(* sequence, and a variable that may hold None is a sequence of length 0   *)
(* (None) or 1 (the value).  A string is a TLA+ string; where the code     *)
(* looks inside a string (ordering, length, concatenation, capitalize)     *)
(* the string's code points are taken from the table Chars.                *)
(***************************************************************************)
EXTENDS Integers, Sequences, FiniteSets, TLC

\* ------------------------------------------------------------------------
\* Bounds of the model.
\* ------------------------------------------------------------------------

\* Largest number of pods in the inventory snapshot.
MaxPods == 2

\* Ticks in a minute (the granularity of the clock, finer than a file stamp).
TicksPerMinute == 2

\* The clock stops at this tick.
MaxClock == 2

\* Largest length of a generated context label.
MaxLabelLen == 3

\* ------------------------------------------------------------------------
\* Python values.
\* ------------------------------------------------------------------------

None == <<>>
Some(v) == <<v>>
IsNone(o) == Len(o) = 0
TheValue(o) == o[1]

\* dict.get(key, default)
Get(d, key, default) == IF key \in DOMAIN d THEN d[key] ELSE default

\* The code points of the strings that occur in the model.
Chars ==
    [ ns1 |-> <<110, 115, 49>>,
      ns2 |-> <<110, 115, 50>>,
      a |-> <<97>>,
      b |-> <<98>>,
      n1 |-> <<110, 49>>,
      n2 |-> <<110, 50>>,
      Unknown |-> <<85, 110, 107, 110, 111, 119, 110>>,
      high |-> <<104, 105, 103, 104>>,
      medium |-> <<109, 101, 100, 105, 117, 109>>,
      low |-> <<108, 111, 119>>,
      unknown |-> <<117, 110, 107, 110, 111, 119, 110>>,
      None |-> <<78, 111, 110, 101>>,
      combined_nodes |-> <<99, 111, 109, 98, 105, 110, 101, 100, 95, 110, 111, 100, 101, 115>>,
      consolidated |-> <<99, 111, 110, 115, 111, 108, 105, 100, 97, 116, 101, 100>>,
      graph_data |-> <<103, 114, 97, 112, 104, 95, 100, 97, 116, 97>> ]
    @@ ("low/medium/high" :>
          <<108, 111, 119, 47, 109, 101, 100, 105, 117, 109, 47, 104, 105, 103, 104>>)

\* "A/B": the f-string f"{a}/{b}" (47 is the code point of the slash).
Slash == <<47>>
JoinSlash(x, y) == Chars[x] \o Slash \o Chars[y]

\* Python's str ordering: lexicographic on code points, a proper prefix first.
RECURSIVE SeqLess(_, _)
SeqLess(s, t) ==
    IF Len(t) = 0 THEN FALSE
    ELSE IF Len(s) = 0 THEN TRUE
    ELSE IF s[1] < t[1] THEN TRUE
    ELSE IF s[1] > t[1] THEN FALSE
    ELSE SeqLess(Tail(s), Tail(t))

StrLess(x, y) == SeqLess(Chars[x], Chars[y])

\* sorted(set(...)) of strings: ascending, no duplicates.
RECURSIVE SortedStrings(_)
SortedStrings(S) ==
    IF S = {} THEN <<>>
    ELSE LET m == CHOOSE x \in S : \A y \in S \ {x} : StrLess(x, y)
         IN  <<m>> \o SortedStrings(S \ {m})

Range(seq) == { seq[i] : i \in 1..Len(seq) }

\* max(...) of a non-empty set of integers.
MaxOf(S) == CHOOSE m \in S : \A x \in S : x <= m

\* str.capitalize(): the first character upper-cased, the others lower-cased.
UpperChar(c) == IF c \in 97..122 THEN c - 32 ELSE c
LowerChar(c) == IF c \in 65..90 THEN c + 32 ELSE c
Capitalize(cs) ==
    [i \in 1..Len(cs) |-> IF i = 1 THEN UpperChar(cs[i]) ELSE LowerChar(cs[i])]

\* ------------------------------------------------------------------------
\* The documents the run reads: the inventory snapshot and the catalog.
\* ------------------------------------------------------------------------

Namespaces == {"ns1", "ns2"}
PodName == <<"p1", "p2", "p3", "p4">>

\* spec.containers of a pod: one container, or two in non-alphabetical order.
OneContainer == <<[name |-> "a"]>>
TwoContainers == <<[name |-> "b"], [name |-> "a"]>>

\* spec of a pod: on n1 with one or two containers, on n2 with two, or
\* unscheduled (no nodeName key) with one.
PodSpecs ==
    { [nodeName |-> "n1", containers |-> OneContainer],
      [nodeName |-> "n1", containers |-> TwoContainers],
      [nodeName |-> "n2", containers |-> TwoContainers],
      [containers |-> OneContainer] }

\* The pods the i-th item of pods.items can be: the first two of every
\* namespace and spec, the further ones in ns1, unscheduled or on n1 with one
\* container (a replica of what the first two can be).
PodChoices(i) ==
    IF i \in {1, 2}
    THEN { [metadata |-> [namespace |-> ns, name |-> PodName[i]], spec |-> sp] :
             ns \in Namespaces, sp \in PodSpecs }
    ELSE { [metadata |-> [namespace |-> "ns1", name |-> PodName[i]], spec |-> sp] :
             sp \in { ps \in PodSpecs : ps.containers = OneContainer } }

RECURSIVE PodListsOfLen(_)
PodListsOfLen(k) ==
    IF k = 0 THEN { <<>> }
    ELSE { Append(ps, p) : ps \in PodListsOfLen(k - 1), p \in PodChoices(k) }

PodLists == UNION { PodListsOfLen(k) : k \in 0..MaxPods }

\* nodes.items: a cluster with two nodes, or a snapshot that lists none.
NodeItemLists ==
    { <<>>, <<[metadata |-> [name |-> "n1"]], [metadata |-> [name |-> "n2"]]>> }

\* The documents session.json can hold.
SessionDocuments ==
    { [nodes |-> [items |-> ns], pods |-> [items |-> ps]] :
        ns \in NodeItemLists, ps \in PodLists }

\* Catalog entries: edited ones, one as the template generator writes it, and
\* one that lacks the criticality key.
EntryHigh ==
    [description |-> "payment API", dependencies |-> <<"ns2/a", "ns1/b">>,
     criticality |-> "high"]
EntryMedium ==
    [description |-> "cache", dependencies |-> <<>>, criticality |-> "medium"]
EntryLow ==
    [description |-> "log shipper", dependencies |-> <<"ns1/a">>, criticality |-> "low"]
EntryTemplate ==
    [description |-> "Enter description here", dependencies |-> <<>>,
     criticality |-> "low/medium/high"]
EntryNoCriticality ==
    [description |-> "sidecar", dependencies |-> <<"ns2/a">>]

\* A namespace's dict of the catalog: the containers that have an entry.
NamespaceDict(ea, eb) ==
    LET e == [a |-> ea, b |-> eb]
    IN  [c \in { k \in {"a", "b"} : ~IsNone(e[k]) } |-> TheValue(e[c])]

\* A catalog document: the namespaces that have at least one entry.
CatalogOf(e1a, e1b, e2a) ==
    LET d == [ns1 |-> NamespaceDict(e1a, e1b), ns2 |-> NamespaceDict(e2a, None)]
    IN  [ns \in { k \in Namespaces : DOMAIN d[k] # {} } |-> d[ns]]

\* The documents container_info.json can hold: an empty catalog, and catalogs
\* in which ns1/b and ns2/a have been entered and ns1/a has no entry or one of
\* three; ns2/b never has an entry.
CatalogDocuments ==
    { CatalogOf(None, None, None) }
    \cup { CatalogOf(e1a, Some(EntryLow), Some(EntryMedium)) :
             e1a \in {None, Some(EntryHigh), Some(EntryTemplate), Some(EntryNoCriticality)} }

\* ------------------------------------------------------------------------
\* Inventory extraction.
\* ------------------------------------------------------------------------

\* get_node_list
get_node_list(session_data) ==
    [i \in 1..Len(session_data.nodes.items) |-> session_data.nodes.items[i].metadata.name]

\* get_pods_on_node with the key's absence taken for a match.
get_pods_on_node_or_unscheduled(session_data, node_name) ==
    LET OnNode(pod) == "nodeName" \in DOMAIN pod.spec => pod.spec.nodeName = node_name
    IN  [items |-> SelectSeq(session_data.pods.items, OnNode)]

\* get_pods_on_node: pod['spec'].get('nodeName') == node_name; a pod without
\* the key gives None, which equals no node name.
get_pods_on_node(session_data, node_name) ==
    LET OnNode(pod) == "nodeName" \in DOMAIN pod.spec /\ pod.spec.nodeName = node_name
    IN  [items |-> SelectSeq(session_data.pods.items, OnNode)]

\* get_pods_all_nodes
get_pods_all_nodes(session_data) == session_data.pods

\* The inner loop of extract_containers: the instances of one pod.
PodContainers(pod) ==
    [i \in 1..Len(pod.spec.containers) |->
        [namespace |-> pod.metadata.namespace,
         pod_name |-> pod.metadata.name,
         container_name |-> pod.spec.containers[i].name,
         node_name |-> Get(pod.spec, "nodeName", "Unknown")]]

RECURSIVE ExtractFrom(_)
ExtractFrom(items) ==
    IF Len(items) = 0 THEN <<>>
    ELSE PodContainers(items[1]) \o ExtractFrom(Tail(items))

\* extract_containers
extract_containers(pods_data) == ExtractFrom(pods_data.items)

\* ------------------------------------------------------------------------
\* Impact assessment.
\* ------------------------------------------------------------------------

\* container_info.get(namespace, {}).get(container_name): None on a miss.
Lookup(container_info, namespace, container_name) ==
    LET entries == Get(container_info, namespace, <<>>)
    IN  IF container_name \in DOMAIN entries THEN Some(entries[container_name]) ELSE None

\* The info substituted for a container the catalog does not know.
DefaultInfo ==
    [description |-> "No information available", dependencies |-> <<>>,
     criticality |-> "unknown"]

\* The if/elif chain with the sort keys of medium and low exchanged.
ClassifyExchanged(criticality) ==
    IF criticality = "high" THEN [impact |-> "High impact", criticality_sort |-> 1]
    ELSE IF criticality = "medium" THEN [impact |-> "Moderate impact", criticality_sort |-> 3]
    ELSE IF criticality = "low" THEN [impact |-> "Low impact", criticality_sort |-> 2]
    ELSE [impact |-> "Unknown impact", criticality_sort |-> 4]

\* The if/elif chain: the impact label and the sort key of a criticality.
Classify(criticality) ==
    IF criticality = "high" THEN [impact |-> "High impact", criticality_sort |-> 1]
    ELSE IF criticality = "medium" THEN [impact |-> "Moderate impact", criticality_sort |-> 2]
    ELSE IF criticality = "low" THEN [impact |-> "Low impact", criticality_sort |-> 3]
    ELSE [impact |-> "Unknown impact", criticality_sort |-> 4]

\* The info the loop body works with: the catalog entry, or the default.
InfoFor(container, container_info) ==
    LET found == Lookup(container_info, container.namespace, container.container_name)
    IN  IF IsNone(found) THEN DefaultInfo ELSE TheValue(found)

\* One iteration of the loop: the report appended for a container.
ReportFor(container, container_info) ==
    LET info == InfoFor(container, container_info)
        criticality == Get(info, "criticality", "unknown")
        class == Classify(criticality)
    IN  [namespace |-> container.namespace,
         pod_name |-> container.pod_name,
         container_name |-> container.container_name,
         node_name |-> container.node_name,
         description |-> Get(info, "description", "No information available"),
         dependencies |-> Get(info, "dependencies", <<>>),
         criticality |-> criticality,
         criticality_sort |-> class.criticality_sort,
         impact |-> class.impact]

\* missing_containers with a pair reported once, at its first instance.
MissingFromDeduplicated(containers, container_info) ==
    LET Pair(c) == <<c.namespace, c.container_name>>
        Missing(c) == IsNone(Lookup(container_info, c.namespace, c.container_name))
        first == { i \in 1..Len(containers) :
                     /\ Missing(containers[i])
                     /\ \A j \in 1..(i - 1) : Pair(containers[j]) # Pair(containers[i]) }
        Nth(k) == CHOOSE i \in first : Cardinality({ j \in first : j <= i }) = k
    IN  [k \in 1..Cardinality(first) |-> Pair(containers[Nth(k)])]

\* The containers for which the loop appends to missing_containers.
MissingFrom(containers, container_info) ==
    LET Missing(c) == IsNone(Lookup(container_info, c.namespace, c.container_name))
        missing == SelectSeq(containers, Missing)
    IN  [i \in 1..Len(missing) |-> <<missing[i].namespace, missing[i].container_name>>]

\* assess_impact with the loop skipping a container the catalog does not know.
assess_impact_skipping(containers, container_info) ==
    LET Known(c) == ~IsNone(Lookup(container_info, c.namespace, c.container_name))
        known == SelectSeq(containers, Known)
    IN  << [i \in 1..Len(known) |-> ReportFor(known[i], container_info)],
           MissingFrom(containers, container_info) >>

\* assess_impact: the pair (reports, missing_containers).
assess_impact(containers, container_info) ==
    << [i \in 1..Len(containers) |-> ReportFor(containers[i], container_info)],
       MissingFrom(containers, container_info) >>

\* ------------------------------------------------------------------------
\* Report builder.
\* ------------------------------------------------------------------------

\* An insertion that puts a report before the reports of equal key.
RECURSIVE InsertByRankBeforeEqual(_, _)
InsertByRankBeforeEqual(sorted, r) ==
    IF Len(sorted) = 0 THEN <<r>>
    ELSE IF r.criticality_sort <= sorted[1].criticality_sort THEN <<r>> \o sorted
    ELSE <<sorted[1]>> \o InsertByRankBeforeEqual(Tail(sorted), r)

\* sorted(reports, key=lambda x: x['criticality_sort']): Python's sort is
\* stable, so a report goes after the reports whose key is not larger.
RECURSIVE InsertByRank(_, _)
InsertByRank(sorted, r) ==
    IF Len(sorted) = 0 THEN <<r>>
    ELSE IF r.criticality_sort < sorted[1].criticality_sort THEN <<r>> \o sorted
    ELSE <<sorted[1]>> \o InsertByRank(Tail(sorted), r)

RECURSIVE SortedByRank(_)
SortedByRank(reports) ==
    IF Len(reports) = 0 THEN <<>>
    ELSE InsertByRank(SortedByRank(SubSeq(reports, 1, Len(reports) - 1)),
                      reports[Len(reports)])

\* f"{namespace}/{container_name}"
FullName(report) == JoinSlash(report.namespace, report.container_name)

\* max(len(name) for name in container_names) if container_names else 0
MaxNameLength(reports) ==
    IF Len(reports) = 0 THEN 0
    ELSE MaxOf({ Len(FullName(reports[i])) : i \in 1..Len(reports) })

\* ', '.join(dependencies) if dependencies else 'None'
DependenciesCell(report) ==
    IF Len(report.dependencies) > 0 THEN report.dependencies ELSE <<"None">>

\* The table line of one report: the name padded to the column width, the
\* capitalized criticality, the dependencies.
TableLine(report, width) ==
    [name |-> FullName(report), width |-> width,
     criticality |-> Capitalize(Chars[report.criticality]),
     dependencies |-> DependenciesCell(report)]

TableRows(sorted_reports, width) ==
    [i \in 1..Len(sorted_reports) |-> TableLine(sorted_reports[i], width)]

\* generate_table_per_node: header, rule, the rows, closing rule.
generate_table_per_node(node_reports) ==
    LET sorted_reports == SortedByRank(node_reports)
        width == MaxNameLength(sorted_reports)
    IN  << [header |-> "Container Name", width |-> width],
           [rule |-> "-", length |-> width + 50] >>
        \o TableRows(sorted_reports, width)
        \o << [rule |-> "=", length |-> width + 50] >>

\* generate_table_report: the same table under a "Containers Summary:" title.
generate_table_report(impact_reports) ==
    LET sorted_reports == SortedByRank(impact_reports)
        width == MaxNameLength(sorted_reports)
    IN  << [text |-> "Containers Summary:"],
           [rule |-> "=", length |-> width + 50],
           [header |-> "Container Name", width |-> width],
           [rule |-> "-", length |-> width + 50] >>
        \o TableRows(sorted_reports, width)
        \o << [rule |-> "=", length |-> width + 50] >>

\* The rows of a table: its lines that carry a container name.
RowsOf(table_lines) ==
    LET IsRow(line) == "name" \in DOMAIN line
    IN  SelectSeq(table_lines, IsRow)

\* The node names without the sort: in the order of their first report.
NodesOfUnsorted(impact_reports) ==
    LET first == { i \in 1..Len(impact_reports) :
                     \A j \in 1..(i - 1) :
                        impact_reports[j].node_name # impact_reports[i].node_name }
        Nth(k) == CHOOSE i \in first : Cardinality({ j \in first : j <= i }) = k
    IN  [k \in 1..Cardinality(first) |-> impact_reports[Nth(k)].node_name]

\* nodes = sorted(set(report['node_name'] for report in impact_reports))
NodesOf(impact_reports) ==
    SortedStrings({ impact_reports[i].node_name : i \in 1..Len(impact_reports) })

\* node_reports = [report for report in impact_reports if report['node_name'] == node]
NodeReports(impact_reports, node) ==
    LET OfNode(report) == report.node_name = node
    IN  SelectSeq(impact_reports, OfNode)

\* consolidated_data: the dict node -> node_reports, as its items in
\* insertion order (the order json.dump writes them in).
consolidated_data(impact_reports) ==
    LET nodes == NodesOf(impact_reports)
    IN  [i \in 1..Len(nodes) |->
            [node |-> nodes[i], node_reports |-> NodeReports(impact_reports, nodes[i])]]

\* count_critical_containers
critical_count(impact_reports) ==
    Cardinality({ i \in 1..Len(impact_reports) : impact_reports[i].criticality = "high" })

\* One vertex of a node's graph: appended once per report.
Vertex(report) ==
    [id |-> FullName(report), label |-> FullName(report),
     criticality |-> report.criticality,
     description |-> report.description,
     dependencies |-> report.dependencies]

\* The edges appended for one report: one per dependency.
EdgesOf(report) ==
    [j \in 1..Len(report.dependencies) |->
        [from |-> FullName(report), to |-> report.dependencies[j]]]

RECURSIVE EdgesFrom(_)
EdgesFrom(node_reports) ==
    IF Len(node_reports) = 0 THEN <<>>
    ELSE EdgesOf(node_reports[1]) \o EdgesFrom(Tail(node_reports))

\* node_graph of generate_graph_data_json
NodeGraph(node_reports) ==
    [nodes |-> [i \in 1..Len(node_reports) |-> Vertex(node_reports[i])],
     edges |-> EdgesFrom(node_reports)]

\* graph_data: the dict node -> node_graph, as its items in insertion order.
graph_data(impact_reports) ==
    LET nodes == NodesOf(impact_reports)
    IN  [i \in 1..Len(nodes) |->
            [node |-> nodes[i],
             graph |-> NodeGraph(NodeReports(impact_reports, nodes[i]))]]

\* ------------------------------------------------------------------------
\* Export sink.
\* ------------------------------------------------------------------------

\* datetime.now().strftime("%Y%m%d_%H%M"): the time without its seconds.
Stamp(time) == time \div TicksPerMinute

\* str.isalnum() below code point 256: digits, letters, and the letters and
\* numeric signs of Latin-1.
IsAlnum(c) ==
    \/ c \in 48..57
    \/ c \in 65..90
    \/ c \in 97..122
    \/ c \in {170, 178, 179, 181, 185, 186, 188, 189, 190}
    \/ c \in (192..255) \ {215, 247}

\* The test of sanitize_filename without the hyphen.
KeptCharWithoutHyphen(c) == IsAlnum(c) \/ c \in {32, 95}

\* c.isalnum() or c in (' ', '_', '-')
KeptChar(c) == IsAlnum(c) \/ c \in {32, 95, 45}

\* str.rstrip(): trailing whitespace removed.
RECURSIVE RStrip(_)
RStrip(cs) ==
    IF Len(cs) > 0 /\ cs[Len(cs)] \in {9, 10, 11, 12, 13, 28, 29, 30, 31, 32, 133, 160}
    THEN RStrip(SubSeq(cs, 1, Len(cs) - 1))
    ELSE cs

\* sanitize_filename
sanitize_filename(filename) == RStrip(SelectSeq(filename, KeptChar))

\* The file names of the three exports.
report_filename(selected_node, current_datetime) ==
    IF ~IsNone(selected_node)
    THEN [stem |-> sanitize_filename(Chars[TheValue(selected_node)]),
          stamp |-> Some(current_datetime), ext |-> "txt"]
    ELSE [stem |-> Chars["combined_nodes"], stamp |-> Some(current_datetime), ext |-> "txt"]

\* The consolidated export under a name without the time.
consolidated_filename_unstamped(current_datetime) ==
    [stem |-> Chars["consolidated"], stamp |-> None, ext |-> "json"]

consolidated_filename(current_datetime) ==
    [stem |-> Chars["consolidated"], stamp |-> Some(current_datetime), ext |-> "json"]

graph_filename == [stem |-> Chars["graph_data"], stamp |-> None, ext |-> "json"]

\* The narrative block of one report in the single-node report.
NarrativeBlock(report) ==
    [namespace |-> report.namespace,
     pod |-> report.pod_name,
     container |-> report.container_name,
     description |-> report.description,
     dependencies |-> DependenciesCell(report),
     criticality |-> report.criticality,
     impact |-> report.impact]

\* The per-node sections of the combined report.
CombinedSections(impact_reports) ==
    LET nodes == NodesOf(impact_reports)
    IN  [i \in 1..Len(nodes) |->
            [node |-> nodes[i],
             table |-> generate_table_per_node(NodeReports(impact_reports, nodes[i]))]]

\* report_text of print_report: title, date, and the body of the scope.
report_text(impact_reports, selected_node, current_datetime) ==
    IF ~IsNone(selected_node)
    THEN [title |-> <<"Impact Assessment Report for Node: ", TheValue(selected_node)>>,
          date |-> current_datetime,
          blocks |-> [i \in 1..Len(impact_reports) |-> NarrativeBlock(impact_reports[i])],
          table |-> generate_table_report(impact_reports)]
    ELSE [title |-> <<"Combined Impact Assessment Report for All Nodes">>,
          date |-> current_datetime,
          sections |-> CombinedSections(impact_reports)]

\* open(filename, 'w') followed by the write: the file is created or replaced.
WriteFile(fs, filename, content) ==
    [f \in DOMAIN fs \cup {filename} |-> IF f = filename THEN content ELSE fs[f]]

\* What a file holds when open(filename, 'w') created or emptied it and the
\* write raised: nothing, or a part that cannot be read back.
Cut == <<>>

\* ------------------------------------------------------------------------
\* The run of main().
\* ------------------------------------------------------------------------

VARIABLES
    pc,                  \* the place main() is at (where it ended, once it has)
    status,              \* "running", "returned" (main returned), "raised"
    session_file,        \* session.json: "absent", "malformed" or "valid"
    container_info_file, \* container_info.json: "absent", "malformed" or "valid"
    session_data,        \* None, or the loaded snapshot
    selected_node,       \* None, or the node selected
    is_combined,         \* the combined report was selected
    container_info,      \* None, or the loaded catalog
    containers,          \* the extracted container instances
    impact_reports,      \* the reports of assess_impact
    missing_containers,  \* the gap list of assess_impact
    called,              \* the functions main() has called so far
    files,               \* the export files written: file name -> content
    mtime,               \* the tick at which each export file was last written
    clock,               \* the wall clock, in ticks
    label,               \* the context label handed to sanitize_filename
    sanitized,           \* None, or what sanitize_filename returned
    current_datetime     \* None, or the minute an export read from the clock

vars ==
    << pc, status, session_file, container_info_file, session_data, selected_node,
       is_combined, container_info, containers, impact_reports, missing_containers,
       called, files, mtime, clock, label, sanitized, current_datetime >>

FileStates == {"absent", "malformed", "valid"}

Init ==
    /\ pc = "check_session"
    /\ status = "running"
    /\ session_file \in FileStates
    /\ container_info_file \in FileStates
    /\ session_data = None
    /\ selected_node = None
    /\ is_combined = FALSE
    /\ container_info = None
    /\ containers = <<>>
    /\ impact_reports = <<>>
    /\ missing_containers = <<>>
    /\ called = {}
    /\ files = <<>>
    /\ mtime = <<>>
    /\ clock = 0
    /\ label = <<>>
    /\ sanitized = None
    /\ current_datetime = None

\* What main() computed so far, left alone by a step.
data == << session_data, selected_node, is_combined, container_info, containers,
           impact_reports, missing_containers >>
disk == << session_file, container_info_file, files, mtime >>
scratch == << label, sanitized, current_datetime >>

Running(place) == status = "running" /\ pc = place

\* The exit code of the process: main() is the last statement of the script,
\* so the interpreter exits 0 when it returns and 1 on an uncaught exception.
ExitCode(st) == IF st = "raised" THEN 1 ELSE 0

\* main: session.json exists, nothing to collect.
SessionExists ==
    /\ Running("check_session")
    /\ session_file # "absent"
    /\ pc' = "load_session"
    /\ UNCHANGED << status, data, called, disk, clock, scratch >>

\* main: session.json is absent and save_session_data writes it.
SaveSessionData ==
    /\ Running("check_session")
    /\ session_file = "absent"
    /\ session_file' = "valid"
    /\ called' = called \cup {"save_session_data"}
    /\ pc' = "load_session"
    /\ UNCHANGED << status, data, container_info_file, files, mtime, clock, scratch >>

\* main: session.json is absent and save_session_data raises: kubectl is
\* missing, or it fails and json.loads raises on its empty output, and no file
\* is written; or the write raises after open('session.json', 'w') created
\* the file, which is left with a part that json.load cannot read.
SaveSessionDataRaises ==
    /\ Running("check_session")
    /\ session_file = "absent"
    /\ session_file' \in {"absent", "malformed"}
    /\ called' = called \cup {"save_session_data"}
    /\ status' = "raised"
    /\ UNCHANGED << pc, data, container_info_file, files, mtime, clock, scratch >>

\* load_session_data returns the snapshot.
LoadSessionData ==
    /\ Running("load_session")
    /\ session_file = "valid"
    /\ \E document \in SessionDocuments : session_data' = Some(document)
    /\ called' = called \cup {"load_session_data"}
    /\ pc' = "select_node"
    /\ UNCHANGED << status, selected_node, is_combined, container_info, containers,
                    impact_reports, missing_containers, disk, clock, scratch >>

\* load_session_data returns None for an absent file (main returns), and
\* json.load raises on a malformed one.
LoadSessionDataFails ==
    /\ Running("load_session")
    /\ session_file # "valid"
    /\ called' = called \cup {"load_session_data"}
    /\ status' = IF session_file = "absent" THEN "returned" ELSE "raised"
    /\ UNCHANGED << pc, data, disk, clock, scratch >>

\* main: the snapshot lists no node.
NoNodes ==
    /\ Running("select_node")
    /\ Len(get_node_list(TheValue(session_data))) = 0
    /\ called' = called \cup {"get_node_list"}
    /\ status' = "returned"
    /\ UNCHANGED << pc, data, disk, clock, scratch >>

\* select_node: a number of the list selects a node, the number after the
\* last the combined report; any other input is asked again.
SelectNode ==
    /\ Running("select_node")
    /\ LET node_names == get_node_list(TheValue(session_data))
       IN  /\ Len(node_names) > 0
           /\ \E choice \in 0..(Len(node_names) + 2) :
                IF 1 <= choice /\ choice <= Len(node_names)
                THEN /\ selected_node' = Some(node_names[choice])
                     /\ is_combined' = FALSE
                     /\ pc' = "load_container_info"
                ELSE IF choice = Len(node_names) + 1
                THEN /\ selected_node' = None
                     /\ is_combined' = TRUE
                     /\ pc' = "load_container_info"
                ELSE UNCHANGED << selected_node, is_combined, pc >>
    /\ called' = called \cup {"get_node_list", "select_node"}
    /\ UNCHANGED << status, session_data, container_info, containers, impact_reports,
                    missing_containers, disk, clock, scratch >>

\* load_container_info returns the catalog.
LoadContainerInfo ==
    /\ Running("load_container_info")
    /\ container_info_file = "valid"
    /\ \E document \in CatalogDocuments : container_info' = Some(document)
    /\ called' = called \cup {"load_container_info"}
    /\ pc' = "extract_containers"
    /\ UNCHANGED << status, session_data, selected_node, is_combined, containers,
                    impact_reports, missing_containers, disk, clock, scratch >>

\* load_container_info returning None for a file it could not load, and main
\* going on without the test for None.
LoadContainerInfoFailsGoingOn ==
    /\ Running("load_container_info")
    /\ container_info_file # "valid"
    /\ called' = called \cup {"load_container_info"}
    /\ pc' = "extract_containers"
    /\ UNCHANGED << status, data, disk, clock, scratch >>

\* load_container_info returns None for an absent file (main returns), and
\* json.load raises on a malformed one.
LoadContainerInfoFails ==
    /\ Running("load_container_info")
    /\ container_info_file # "valid"
    /\ called' = called \cup {"load_container_info"}
    /\ status' = IF container_info_file = "absent" THEN "returned" ELSE "raised"
    /\ UNCHANGED << pc, data, disk, clock, scratch >>

\* main: the pods in scope.
PodsInScope ==
    IF is_combined
    THEN get_pods_all_nodes(TheValue(session_data))
    ELSE get_pods_on_node(TheValue(session_data), TheValue(selected_node))

\* main: the containers of the pods in scope; none ends the run.
ExtractContainers ==
    /\ Running("extract_containers")
    /\ containers' = extract_containers(PodsInScope)
    /\ called' = called \cup {"extract_containers"}
    /\ IF Len(containers') = 0
       THEN status' = "returned" /\ pc' = pc
       ELSE status' = status /\ pc' = "assess_impact"
    /\ UNCHANGED << session_data, selected_node, is_combined, container_info,
                    impact_reports, missing_containers, disk, clock, scratch >>

\* main: assess_impact, the warning about the gaps, and the main menu entered.
AssessImpact ==
    /\ Running("assess_impact")
    /\ LET result == assess_impact(containers, TheValue(container_info))
       IN  /\ impact_reports' = result[1]
           /\ missing_containers' = result[2]
    /\ called' = called \cup {"assess_impact", "main_menu"}
    /\ pc' = "main_menu"
    /\ UNCHANGED << status, session_data, selected_node, is_combined, container_info,
                    containers, disk, clock, scratch >>

\* main_menu, choice 1.
MenuGatherStatistics ==
    /\ Running("main_menu")
    /\ pc' = "gather_statistics"
    /\ UNCHANGED << status, data, called, disk, clock, scratch >>

\* gather_statistics, choice 1: the count is printed.
StatisticsCount ==
    /\ Running("gather_statistics")
    /\ critical_count(impact_reports) \in 0..Len(impact_reports)
    /\ UNCHANGED vars

\* gather_statistics, choice 2, with list.sort() in place of sorted().
StatisticsListSortingInPlace ==
    /\ Running("gather_statistics")
    /\ Len(generate_table_report(impact_reports)) > 0
    /\ impact_reports' = SortedByRank(impact_reports)
    /\ UNCHANGED << pc, status, session_data, selected_node, is_combined, container_info,
                    containers, missing_containers, called, disk, clock, scratch >>

\* gather_statistics, choice 2: the table is printed.
StatisticsList ==
    /\ Running("gather_statistics")
    /\ Len(generate_table_report(impact_reports)) > 0
    /\ UNCHANGED vars

\* gather_statistics, choice 3.
StatisticsBack ==
    /\ Running("gather_statistics")
    /\ pc' = "main_menu"
    /\ UNCHANGED << status, data, called, disk, clock, scratch >>

\* main_menu, choice 2: print_report reads the clock, builds the text and
\* prints it; the file is written afterwards.
MenuPrintReport ==
    /\ Running("main_menu")
    /\ current_datetime' = Some(Stamp(clock))
    /\ pc' = "print_report"
    /\ UNCHANGED << status, data, called, disk, clock, label, sanitized >>

\* print_report: the report file is written under the name made from the
\* time read before, and main_menu goes on.
PrintReportSave ==
    /\ Running("print_report")
    /\ LET report_filename_ == report_filename(selected_node, TheValue(current_datetime))
       IN  /\ files' = WriteFile(files, report_filename_,
                    report_text(impact_reports, selected_node, TheValue(current_datetime)))
           /\ mtime' = WriteFile(mtime, report_filename_, clock)
    /\ current_datetime' = None
    /\ pc' = "main_menu"
    /\ UNCHANGED << status, data, called, session_file, container_info_file, clock,
                    label, sanitized >>

\* print_report: open() or the write raises OSError, nothing catches it and
\* it leaves main_menu and main; a file that was opened is left cut.
PrintReportRaises ==
    /\ Running("print_report")
    /\ \E opened \in BOOLEAN :
         LET report_filename_ == report_filename(selected_node, TheValue(current_datetime))
         IN  IF opened
             THEN /\ files' = WriteFile(files, report_filename_, Cut)
                  /\ mtime' = WriteFile(mtime, report_filename_, clock)
             ELSE UNCHANGED << files, mtime >>
    /\ status' = "raised"
    /\ UNCHANGED << pc, data, called, session_file, container_info_file, clock, scratch >>

\* main_menu, choice 3: generate_consolidated_json reads the clock and groups
\* the records; the file is written afterwards.
MenuConsolidatedJson ==
    /\ Running("main_menu")
    /\ current_datetime' = Some(Stamp(clock))
    /\ pc' = "generate_consolidated_json"
    /\ UNCHANGED << status, data, called, disk, clock, label, sanitized >>

\* generate_consolidated_json: the file is written under the name made from
\* the time read before, and main_menu goes on.
ConsolidatedJsonSave ==
    /\ Running("generate_consolidated_json")
    /\ LET filename == consolidated_filename(TheValue(current_datetime))
       IN  /\ files' = WriteFile(files, filename, consolidated_data(impact_reports))
           /\ mtime' = WriteFile(mtime, filename, clock)
    /\ current_datetime' = None
    /\ pc' = "main_menu"
    /\ UNCHANGED << status, data, called, session_file, container_info_file, clock,
                    label, sanitized >>

\* generate_consolidated_json: open() or json.dump raises OSError.
ConsolidatedJsonRaises ==
    /\ Running("generate_consolidated_json")
    /\ \E opened \in BOOLEAN :
         LET filename == consolidated_filename(TheValue(current_datetime))
         IN  IF opened
             THEN /\ files' = WriteFile(files, filename, Cut)
                  /\ mtime' = WriteFile(mtime, filename, clock)
             ELSE UNCHANGED << files, mtime >>
    /\ status' = "raised"
    /\ UNCHANGED << pc, data, called, session_file, container_info_file, clock, scratch >>

\* main_menu, choice 4: generate_graph_data_json writes its file.
MenuGraphDataJson ==
    /\ Running("main_menu")
    /\ files' = WriteFile(files, graph_filename, graph_data(impact_reports))
    /\ mtime' = WriteFile(mtime, graph_filename, clock)
    /\ UNCHANGED << pc, status, data, called, session_file, container_info_file, clock, scratch >>

\* main_menu, choice 4: open() or json.dump raises OSError.
GraphDataJsonRaises ==
    /\ Running("main_menu")
    /\ \E opened \in BOOLEAN :
         IF opened
         THEN /\ files' = WriteFile(files, graph_filename, Cut)
              /\ mtime' = WriteFile(mtime, graph_filename, clock)
         ELSE UNCHANGED << files, mtime >>
    /\ status' = "raised"
    /\ UNCHANGED << pc, data, called, session_file, container_info_file, clock, scratch >>

\* main_menu, choice 5.
MenuQuit ==
    /\ Running("main_menu")
    /\ status' = "returned"
    /\ UNCHANGED << pc, data, called, disk, clock, scratch >>

\* get_json.py, run next to main(): save_template_to_file, called after an
\* edit or from choices 1 and 3 of its menu, opens container_info.json for
\* writing. The file is created or emptied: json.load raises on it until the
\* document has been written.
SaveTemplateOpen ==
    /\ status = "running"
    /\ container_info_file' = "malformed"
    /\ UNCHANGED << pc, status, data, called, session_file, files, mtime, clock, scratch >>

\* save_template_to_file: json.dump on the file it opened. The document is
\* written, or the write raises OSError and the file stays empty or cut.
SaveTemplateDump ==
    /\ status = "running"
    /\ container_info_file = "malformed"
    /\ container_info_file' \in {"valid", "malformed"}
    /\ UNCHANGED << pc, status, data, called, session_file, files, mtime, clock, scratch >>

\* main_menu or gather_statistics, any other input: the menu is shown again.
InvalidChoice ==
    /\ status = "running"
    /\ pc \in {"main_menu", "gather_statistics"}
    /\ UNCHANGED vars

Next ==
    \/ SessionExists
    \/ SaveSessionData
    \/ SaveSessionDataRaises
    \/ LoadSessionData
    \/ LoadSessionDataFails
    \/ NoNodes
    \/ SelectNode
    \/ LoadContainerInfo
    \/ LoadContainerInfoFails
    \/ ExtractContainers
    \/ AssessImpact
    \/ MenuGatherStatistics
    \/ StatisticsCount
    \/ StatisticsList
    \/ StatisticsBack
    \/ MenuPrintReport
    \/ PrintReportSave
    \/ PrintReportRaises
    \/ MenuConsolidatedJson
    \/ ConsolidatedJsonSave
    \/ ConsolidatedJsonRaises
    \/ MenuGraphDataJson
    \/ GraphDataJsonRaises
    \/ MenuQuit
    \/ InvalidChoice
    \/ SaveTemplateOpen
    \/ SaveTemplateDump

Spec == Init /\ [][Next]_vars

\* ------------------------------------------------------------------------
\* The main menu while the wall clock advances.
\* ------------------------------------------------------------------------

\* datetime.now(): time passes between two choices of the menu.
Tick ==
    /\ status = "running"
    /\ clock < MaxClock
    /\ clock' = clock + 1
    /\ UNCHANGED << pc, status, data, called, disk, scratch >>

\* Snapshots of a cluster with nodes and one pod.
ExportDocuments ==
    { document \in SessionDocuments :
        Len(document.nodes.items) > 0 /\ Len(document.pods.items) = Len(<<document>>) }

\* main() at the moment it enters main_menu: session.json and
\* container_info.json were loaded, a scope was selected, its containers were
\* extracted and assessed.
InitExport ==
    \E document \in ExportDocuments, catalog \in CatalogDocuments :
      LET node_names == get_node_list(document)
      IN  \E choice \in 1..(Len(node_names) + 1) :
            LET combined == choice = Len(node_names) + 1
                node == IF combined THEN None ELSE Some(node_names[choice])
                pods == IF combined
                        THEN get_pods_all_nodes(document)
                        ELSE get_pods_on_node(document, TheValue(node))
                extracted == extract_containers(pods)
                result == assess_impact(extracted, catalog)
            IN  /\ Len(extracted) > 0
                /\ pc = "main_menu"
                /\ status = "running"
                /\ session_file = "valid"
                /\ container_info_file = "valid"
                /\ session_data = Some(document)
                /\ selected_node = node
                /\ is_combined = combined
                /\ container_info = Some(catalog)
                /\ containers = extracted
                /\ impact_reports = result[1]
                /\ missing_containers = result[2]
                /\ called = {"load_session_data", "get_node_list", "select_node",
                             "load_container_info", "extract_containers",
                             "assess_impact", "main_menu"}
                /\ files = <<>>
                /\ mtime = <<>>
                /\ clock = 0
                /\ label = <<>>
                /\ sanitized = None
    /\ current_datetime = None

NextExport ==
    \/ Tick
    \/ MenuGatherStatistics
    \/ StatisticsCount
    \/ StatisticsList
    \/ StatisticsBack
    \/ MenuPrintReport
    \/ PrintReportSave
    \/ PrintReportRaises
    \/ MenuConsolidatedJson
    \/ ConsolidatedJsonSave
    \/ ConsolidatedJsonRaises
    \/ MenuGraphDataJson
    \/ GraphDataJsonRaises
    \/ MenuQuit
    \/ InvalidChoice
    \/ SaveTemplateOpen
    \/ SaveTemplateDump

SpecExport == InitExport /\ [][NextExport]_vars

\* ------------------------------------------------------------------------
\* sanitize_filename on context labels.
\* ------------------------------------------------------------------------

\* The characters of the labels: n, 1, B, e with an acute accent, slash,
\* asterisk, space, underscore and hyphen.
LabelAlphabet == {110, 49, 66, 233, 47, 42, 32, 95, 45}

RECURSIVE LabelsOfLen(_)
LabelsOfLen(k) ==
    IF k = 0 THEN { <<>> }
    ELSE { Append(l, c) : l \in LabelsOfLen(k - 1), c \in LabelAlphabet }

\* "node/1*bad"
NodeBadLabel == <<110, 111, 100, 101, 47, 49, 42, 98, 97, 100>>

Labels == UNION { LabelsOfLen(k) : k \in 0..MaxLabelLen } \cup { NodeBadLabel }

InitSanitize ==
    /\ pc = "sanitize_filename"
    /\ status = "running"
    /\ session_file = "valid"
    /\ container_info_file = "valid"
    /\ session_data = None
    /\ selected_node = None
    /\ is_combined = FALSE
    /\ container_info = None
    /\ containers = <<>>
    /\ impact_reports = <<>>
    /\ missing_containers = <<>>
    /\ called = {}
    /\ files = <<>>
    /\ mtime = <<>>
    /\ clock = 0
    /\ label \in Labels
    /\ sanitized = None
    /\ current_datetime = None

\* sanitize_filename(label)
SanitizeFilename ==
    /\ Running("sanitize_filename")
    /\ sanitized' = Some(sanitize_filename(label))
    /\ called' = called \cup {"sanitize_filename"}
    /\ pc' = "sanitized"
    /\ UNCHANGED << status, data, disk, clock, label, current_datetime >>

\* sanitize_filename on what it returned.
SanitizeAgain ==
    /\ Running("sanitized")
    /\ label' = TheValue(sanitized)
    /\ sanitized' = Some(sanitize_filename(TheValue(sanitized)))
    /\ pc' = "sanitized_again"
    /\ UNCHANGED << status, data, called, disk, clock, current_datetime >>

NextSanitize ==
    \/ SanitizeFilename
    \/ SanitizeAgain

SpecSanitize == InitSanitize /\ [][NextSanitize]_vars

\* ------------------------------------------------------------------------
\* Properties.
\* ------------------------------------------------------------------------

Assessed == "assess_impact" \in called
Catalog == TheValue(container_info)
Snapshot == TheValue(session_data)

\* The catalog has an entry for (namespace, container).
HasEntry(catalog, namespace, container_name) ==
    /\ namespace \in DOMAIN catalog
    /\ container_name \in DOMAIN catalog[namespace]

InstanceHasEntry(i) ==
    HasEntry(Catalog, containers[i].namespace, containers[i].container_name)

InfoKeys == {"description", "dependencies", "criticality"}

\* C1: assess_impact returns one record per instance, in instance order; the
\* i-th record carries the i-th instance's namespace, pod, container and
\* node; its description, dependencies and criticality are the catalog
\* entry's values on a hit and the fixed default on a miss; an empty list
\* yields empty outputs.
C1_OneRecordPerInstance ==
    Assessed =>
        /\ Len(impact_reports) = Len(containers)
        /\ \A i \in 1..Len(containers) :
            LET c == containers[i]
                r == impact_reports[i]
            IN  /\ r.namespace = c.namespace
                /\ r.pod_name = c.pod_name
                /\ r.container_name = c.container_name
                /\ r.node_name = c.node_name
                /\ IF InstanceHasEntry(i)
                   THEN LET entry == Catalog[c.namespace][c.container_name]
                        IN  \A k \in InfoKeys \cap DOMAIN entry : r[k] = entry[k]
                   ELSE /\ r.description = "No information available"
                        /\ r.dependencies = <<>>
                        /\ r.criticality = "unknown"
        /\ assess_impact(<<>>, Catalog) = << <<>>, <<>> >>

\* C1 witness: assessed instances of which one has a catalog entry and one
\* has none.
C1_Witness ==
    /\ Assessed
    /\ \E i, j \in 1..Len(containers) : InstanceHasEntry(i) /\ ~InstanceHasEntry(j)

\* The indices of the instances without a catalog entry.
GapIndices == { i \in 1..Len(containers) : ~InstanceHasEntry(i) }

\* The index of the k-th instance without a catalog entry.
GapIndex(k) ==
    CHOOSE i \in GapIndices : Cardinality({ j \in GapIndices : j <= i }) = k

\* C2: the gap list has one (namespace, container) entry per instance without
\* a catalog entry, in instance order, and none for an instance with one;
\* replicas are reported once each; gaps do not keep the records from being
\* returned nor the menu from being reached.
C2_GapPerInstance ==
    Assessed =>
        /\ Len(missing_containers) = Cardinality(GapIndices)
        /\ \A k \in 1..Len(missing_containers) :
            missing_containers[k] =
                << containers[GapIndex(k)].namespace, containers[GapIndex(k)].container_name >>
        /\ Len(impact_reports) = Len(containers)
        /\ "main_menu" \in called
        /\ pc \in {"main_menu", "gather_statistics", "print_report",
                  "generate_consolidated_json"}

\* C2 witness: two replicas of one container without a catalog entry, each
\* reported, next to an instance that has an entry, with the menu reached.
C2_Witness ==
    /\ Assessed
    /\ pc = "main_menu"
    /\ \E k, l \in 1..Len(missing_containers) :
        k # l /\ missing_containers[k] = missing_containers[l]
    /\ \E i \in 1..Len(containers) : InstanceHasEntry(i)

\* The fixed table of section 3: criticality -> (label, rank).
ImpactTable(criticality) ==
    CASE criticality = "high" -> <<"High impact", 1>>
      [] criticality = "medium" -> <<"Moderate impact", 2>>
      [] criticality = "low" -> <<"Low impact", 3>>
      [] criticality = "unknown" -> <<"Unknown impact", 4>>

\* C3: the label and rank of every record follow the fixed table for high,
\* medium, low and unknown, and two records of equal criticality have equal
\* label and rank whatever their other fields.
C3_LabelAndRankByCriticality ==
    \A i, j \in 1..Len(impact_reports) :
        LET r == impact_reports[i]
            q == impact_reports[j]
        IN  /\ r.criticality \in {"high", "medium", "low", "unknown"} =>
                << r.impact, r.criticality_sort >> = ImpactTable(r.criticality)
            /\ r.criticality = q.criticality =>
                r.impact = q.impact /\ r.criticality_sort = q.criticality_sort

\* C3 witness: records of criticality medium and low, and two records of
\* equal criticality that differ in namespace, pod, node, description and
\* dependencies.
C3_Witness ==
    /\ \E i, j \in 1..Len(impact_reports) :
        /\ impact_reports[i].criticality = "medium"
        /\ impact_reports[j].criticality = "low"
    /\ \E i, j \in 1..Len(impact_reports) :
        /\ impact_reports[i].criticality = impact_reports[j].criticality
        /\ impact_reports[i].namespace # impact_reports[j].namespace
        /\ impact_reports[i].pod_name # impact_reports[j].pod_name
        /\ impact_reports[i].node_name # impact_reports[j].node_name
        /\ impact_reports[i].description # impact_reports[j].description
        /\ impact_reports[i].dependencies # impact_reports[j].dependencies

\* The place the stable sort by rank gives the k-th report: after the reports
\* of lower rank and the earlier reports of its own rank.
StablePlace(reports, k) ==
    Cardinality({ j \in 1..Len(reports) :
        \/ reports[j].criticality_sort < reports[k].criticality_sort
        \/ /\ reports[j].criticality_sort = reports[k].criticality_sort
           /\ j <= k })

\* A table row shows a report.
RowShows(row, report) ==
    /\ row.name = JoinSlash(report.namespace, report.container_name)
    /\ row.criticality = Capitalize(Chars[report.criticality])
    /\ row.dependencies = DependenciesCell(report)

\* The rows of a table are the reports in rank order, equal ranks in the
\* order supplied.
RowsInStableOrder(table_lines, reports) ==
    LET rows == RowsOf(table_lines)
    IN  /\ Len(rows) = Len(reports)
        /\ \A k \in 1..Len(reports) : RowShows(rows[StablePlace(reports, k)], reports[k])

\* (namespace, container) of p is not after that of q.
NameNotAfter(p, q) ==
    \/ StrLess(p.namespace, q.namespace)
    \/ /\ p.namespace = q.namespace
       /\ \/ p.container_name = q.container_name
          \/ StrLess(p.container_name, q.container_name)

\* The rows of a table are in rank order, equal ranks by namespace and then
\* container name; ordered is the list the rows were written from.
RowsByRankThenName(table_lines, ordered) ==
    LET rows == RowsOf(table_lines)
    IN  /\ Len(rows) = Len(ordered)
        /\ \A i, j \in 1..Len(rows) :
            i < j =>
                /\ RowShows(rows[i], ordered[i])
                /\ \/ ordered[i].criticality_sort < ordered[j].criticality_sort
                   \/ /\ ordered[i].criticality_sort = ordered[j].criticality_sort
                      /\ NameNotAfter(ordered[i], ordered[j])

\* The report files written so far.
ReportFiles == { f \in DOMAIN files : f.ext = "txt" /\ files[f] # Cut }

\* C4 as claimed: the rows of both tabular views are ordered by rank and,
\* within a rank, by namespace and then container name, whatever the order
\* the records were supplied in.
C4_RowsByRankThenName ==
    Assessed =>
        /\ RowsByRankThenName(generate_table_report(impact_reports),
                              SortedByRank(impact_reports))
        /\ \A node \in Range(NodesOf(impact_reports)) :
            RowsByRankThenName(
                generate_table_per_node(NodeReports(impact_reports, node)),
                SortedByRank(NodeReports(impact_reports, node)))

\* C4 amended: the rows of both tabular views are ordered by rank ascending
\* and rows of equal rank keep the order the records were supplied in; this
\* holds of the tables computed from the records and of the tables in every
\* report file written.
C4_RowsByRankStable ==
    Assessed =>
        /\ RowsInStableOrder(generate_table_report(impact_reports), impact_reports)
        /\ \A node \in Range(NodesOf(impact_reports)) :
            RowsInStableOrder(
                generate_table_per_node(NodeReports(impact_reports, node)),
                NodeReports(impact_reports, node))
        /\ \A f \in ReportFiles :
            IF is_combined
            THEN \A s \in 1..Len(files[f].sections) :
                    RowsInStableOrder(files[f].sections[s].table,
                                      NodeReports(impact_reports, files[f].sections[s].node))
            ELSE RowsInStableOrder(files[f].table, impact_reports)

\* C4 witness: a report file was written from records supplied with a lower
\* rank after a higher one and with two records of equal rank whose names
\* are not in ascending order.
C4_Witness ==
    /\ ReportFiles # {}
    /\ \E i, j \in 1..Len(impact_reports) :
        /\ i < j
        /\ impact_reports[j].criticality_sort < impact_reports[i].criticality_sort
    /\ \E i, j \in 1..Len(impact_reports) :
        /\ i < j
        /\ impact_reports[i].node_name = impact_reports[j].node_name
        /\ impact_reports[i].criticality_sort = impact_reports[j].criticality_sort
        /\ ~NameNotAfter(impact_reports[i], impact_reports[j])

\* The pods of the snapshot that are in scope.
Extracted == "extract_containers" \in called
Pods == Snapshot.pods.items
Scheduled(pod) == "nodeName" \in DOMAIN pod.spec
PodInScope(pod) ==
    is_combined \/ (Scheduled(pod) /\ pod.spec.nodeName = TheValue(selected_node))

\* The (pod, container) pairs of the pods in scope, by their indices.
PairsInScope ==
    UNION { { <<i, j>> : j \in 1..Len(Pods[i].spec.containers) } :
            i \in { n \in 1..Len(Pods) : PodInScope(Pods[n]) } }

\* The instances extracted for a (pod, container) pair.
InstancesOf(pair) ==
    { k \in 1..Len(containers) :
        /\ containers[k].pod_name = Pods[pair[1]].metadata.name
        /\ containers[k].namespace = Pods[pair[1]].metadata.namespace
        /\ containers[k].container_name = Pods[pair[1]].spec.containers[pair[2]].name }

\* C5: extraction yields exactly one instance per (pod, container) pair of the
\* pods in scope; under a single node every instance carries that node and an
\* unscheduled pod contributes none; under all nodes every pod contributes
\* its containers and those of an unscheduled pod carry node "Unknown".
C5_OneInstancePerPair ==
    Extracted =>
        /\ Len(containers) = Cardinality(PairsInScope)
        /\ \A pair \in PairsInScope :
            /\ Cardinality(InstancesOf(pair)) = 1
            /\ \A k \in InstancesOf(pair) :
                containers[k].node_name =
                    IF Scheduled(Pods[pair[1]]) THEN Pods[pair[1]].spec.nodeName
                    ELSE "Unknown"
        /\ ~is_combined =>
            /\ \A k \in 1..Len(containers) :
                containers[k].node_name = TheValue(selected_node)
            /\ \A i \in 1..Len(Pods) :
                ~Scheduled(Pods[i]) =>
                    \A k \in 1..Len(containers) :
                        containers[k].pod_name # Pods[i].metadata.name
        /\ is_combined =>
            \A i \in 1..Len(Pods) :
                \A j \in 1..Len(Pods[i].spec.containers) : <<i, j>> \in PairsInScope

\* C5 witness: a single node is selected, the snapshot holds an unscheduled
\* pod and a pod with two containers on the selected node, and the
\* extraction has run.
C5_Witness ==
    /\ Extracted
    /\ ~is_combined
    /\ \E i \in 1..Len(Pods) : ~Scheduled(Pods[i])
    /\ Len(containers) = 2

\* The groups of the consolidated export and of the combined report.
Groups == consolidated_data(impact_reports)
Sections == CombinedSections(impact_reports)

\* The places (group, position) at which a report occurs in the groups.
PlacesOf(groups, report) ==
    UNION { { <<g, k>> : k \in { n \in 1..Len(groups[g].node_reports) :
                                   groups[g].node_reports[n] = report } } :
            g \in 1..Len(groups) }

RECURSIVE SumOfSizes(_)
SumOfSizes(groups) ==
    IF Len(groups) = 0 THEN 0
    ELSE Len(groups[1].node_reports) + SumOfSizes(Tail(groups))

\* C6: the per-node grouping is a partition of the records: every record is
\* in exactly one group, the group of its own node; no group is empty; the
\* groups come in ascending node-name order; the group sizes add up to the
\* number of records; the combined report has the same groups.
C6_GroupsPartitionRecords ==
    Assessed =>
        LET groups == Groups
            sections == Sections
        IN  /\ \A i \in 1..Len(impact_reports) :
                LET places == PlacesOf(groups, impact_reports[i])
                IN  /\ Cardinality(places) = 1
                    /\ \A place \in places :
                        groups[place[1]].node = impact_reports[i].node_name
            /\ \A g \in 1..Len(groups) : Len(groups[g].node_reports) > 0
            /\ \A g, h \in 1..Len(groups) :
                g < h => SeqLess(Chars[groups[g].node], Chars[groups[h].node])
            /\ SumOfSizes(groups) = Len(impact_reports)
            /\ Len(sections) = Len(groups)
            /\ \A g \in 1..Len(groups) :
                /\ sections[g].node = groups[g].node
                /\ Len(RowsOf(sections[g].table)) = Len(groups[g].node_reports)
            /\ \A f \in DOMAIN files :
                (f.stem = Chars["consolidated"] /\ files[f] # Cut) => files[f] = groups

\* C6 witness: the consolidated export was written with the group of the
\* unscheduled pods before the group of a node, the records having been
\* supplied in the other order, and a group of two records.
C6_Witness ==
    /\ \E f \in DOMAIN files : f.stem = Chars["consolidated"] /\ files[f] # Cut
    /\ Len(Groups) >= 2
    /\ Groups[1].node = "Unknown"
    /\ impact_reports[1].node_name # "Unknown"
    /\ \E g \in 1..Len(Groups) : Len(Groups[g].node_reports) >= 2

\* C7 as claimed: in the graph export no two vertices of one node's graph
\* share an id, also when replicas on the node run the same
\* namespace/container.
C7_VertexIdsDistinct ==
    graph_filename \in DOMAIN files =>
        \A g \in 1..Len(files[graph_filename]) :
            LET vertices == files[graph_filename][g].graph.nodes
            IN  \A i, j \in 1..Len(vertices) : i # j => vertices[i].id # vertices[j].id

\* C8 as claimed: a failing export write ends that export only; the run goes
\* on at the main menu, it is never ended there or in an export by an
\* exception.
C8_WriteFailureKeepsRunning ==
    pc \in {"main_menu", "print_report", "generate_consolidated_json"}
        => status # "raised"

\* The run ended where the snapshot or the catalog is loaded.
SnapshotNotLoaded == status # "running" /\ pc \in {"check_session", "load_session"}
CatalogNotLoaded == status # "running" /\ pc = "load_container_info"

\* C9: in a run in which the snapshot or the catalog cannot be loaded,
\* assess_impact is never called, the main menu is never entered and no
\* export file is written; main goes past the load of the catalog only with
\* both documents loaded, and whenever assess_impact was called, the menu
\* entered or a file written, both documents had been loaded.
C9_NoReportWithoutInputs ==
    /\ (SnapshotNotLoaded \/ CatalogNotLoaded) =>
        /\ "assess_impact" \notin called
        /\ "main_menu" \notin called
        /\ impact_reports = <<>>
        /\ DOMAIN files = {}
    /\ (\/ pc \notin {"check_session", "load_session", "select_node", "load_container_info"}
        \/ "extract_containers" \in called
        \/ "assess_impact" \in called
        \/ "main_menu" \in called
        \/ DOMAIN files # {}) =>
        /\ session_file = "valid"
        /\ "load_session_data" \in called
        /\ "load_container_info" \in called
        /\ ~IsNone(session_data)
        /\ ~IsNone(container_info)

\* C9 witness: the snapshot was loaded and a node selected, and the run ended
\* at the load of a catalog file that is absent or malformed.
C9_Witness ==
    /\ CatalogNotLoaded
    /\ ~IsNone(session_data)
    /\ "select_node" \in called
    /\ container_info_file # "valid"

\* C10 as claimed: the exit code is 1 whenever the run ends because the
\* catalog or the snapshot is unavailable, and 0 only when the user quits
\* from the main menu.
C10_ExitCodes ==
    status # "running" =>
        /\ (SnapshotNotLoaded \/ CatalogNotLoaded) => ExitCode(status) = 1
        /\ ExitCode(status) = 0 => pc = "main_menu"

\* The export files of one kind: the same stem and the same extension.
SameKind(f, g) == f.stem = g.stem /\ f.ext = g.ext

\* C11 as stated: an export never overwrites a file last written in an earlier
\* minute, whatever its kind (rendered report, consolidated export, graph
\* export): a step leaves every existing file with the minute of its last write.
C11_LaterMinuteNeverOverwrites ==
    [][\A f \in DOMAIN files : Stamp(mtime'[f]) = Stamp(mtime[f])]_vars

\* The step writes the file f: it is new, or its content or the time of its
\* last write changes.
Written(f) ==
    \/ f \notin DOMAIN files
    \/ files'[f] # files[f]
    \/ mtime'[f] # mtime[f]

\* C11: the path of a rendered report and of a consolidated export carries the
\* minute in which that export read the clock, which is the minute of the
\* write or an earlier one: exports that read the clock in one minute share a
\* path, also when one of them is written in a later minute, and exports that
\* read it in different minutes go to different paths; the graph export has
\* one fixed path without a stamp.
C11_PathCarriesMinuteOfClockRead ==
    [][/\ (current_datetime' # current_datetime /\ current_datetime' # None)
            => current_datetime' = Some(Stamp(clock))
       /\ \A f \in DOMAIN files' :
            Written(f) =>
                IF f = graph_filename
                THEN f.stamp = None
                ELSE /\ f.stamp = current_datetime
                     /\ TheValue(f.stamp) <= Stamp(clock)
                     /\ \A g \in DOMAIN files :
                            (SameKind(f, g) /\ g.stamp # f.stamp)
                                => files'[g] = files[g] /\ mtime'[g] = mtime[g]]_vars

\* A report written in the minute after the one its path names, next to the
\* report of that later minute, a consolidated export, and the graph export
\* written again in the later minute.
C11_Witness ==
    /\ \E f, g \in ReportFiles :
          /\ SameKind(f, g)
          /\ TheValue(f.stamp) < Stamp(mtime[f])
          /\ g.stamp = Some(Stamp(mtime[f]))
    /\ \E f \in DOMAIN files : f.stem = Chars["consolidated"] /\ files[f] # Cut
    /\ graph_filename \in DOMAIN files
    /\ Stamp(mtime[graph_filename]) > 0

\* Alphanumeric, space, underscore or hyphen.
Allowed(c) ==
    \/ c \in (48..57) \cup (65..90) \cup (97..122)
    \/ c \in {170, 178, 179, 181, 185, 186, 188, 189, 190}
    \/ c \in (192..255) \ {215, 247}
    \/ c \in {32, 95, 45}

OnlyAllowed(cs) == \A i \in 1..Len(cs) : Allowed(cs[i])

\* "node1bad"
NodeBadSanitized == <<110, 111, 100, 101, 49, 98, 97, 100>>

\* C12 as stated: the result is exactly the allowed characters of the label in
\* their order, it holds only allowed characters, and sanitizing the result
\* returns it unchanged.
C12_KeepsExactlyAllowed ==
    sanitized # None =>
        /\ TheValue(sanitized) = SelectSeq(label, Allowed)
        /\ OnlyAllowed(TheValue(sanitized))
        /\ pc = "sanitized_again" => TheValue(sanitized) = label

\* C12: the result is the allowed characters of the label in their order
\* without the spaces that end them; it holds only allowed characters, does not
\* end with a space, "node/1*bad" gives "node1bad", and sanitizing the result
\* returns it unchanged.
C12_KeepsAllowedButTrailingSpaces ==
    sanitized # None =>
        LET kept == SelectSeq(label, Allowed)
            result == TheValue(sanitized)
        IN  /\ Len(result) <= Len(kept)
            /\ result = SubSeq(kept, 1, Len(result))
            /\ \A i \in (Len(result) + 1)..Len(kept) : kept[i] = 32
            /\ Len(result) > 0 => result[Len(result)] # 32
            /\ OnlyAllowed(result)
            /\ label = NodeBadLabel => result = NodeBadSanitized
            /\ pc = "sanitized_again" => result = label

\* A label that lost a character outside the set and a space at its end, and
\* kept a space, an underscore or a hyphen before a letter or a digit.
C12_Witness ==
    /\ pc = "sanitized"
    /\ \E i \in 1..Len(label) : ~Allowed(label[i])
    /\ Len(TheValue(sanitized)) < Len(SelectSeq(label, Allowed))
    /\ \E i \in 1..Len(TheValue(sanitized)) : TheValue(sanitized)[i] \in {32, 95, 45}

\* What an export file holds when it is derived from the records: the report
\* with the date of its name, the consolidated groups, or the graphs.
DerivedFrom(reports, f) ==
    IF f.ext = "txt" THEN report_text(reports, selected_node, TheValue(f.stamp))
    ELSE IF f = graph_filename THEN graph_data(reports)
    ELSE consolidated_data(reports)

\* C13: at the menus the records are the ones assess_impact returned, in
\* length, order and content, whatever was chosen before; the table rendered
\* now has the lines of every table written before, and every export file of
\* the run holds what is derived from these records (a file is cut only by the
\* write that raised and ended the run).
C13_MenuLeavesRecords ==
    Assessed =>
        /\ impact_reports = assess_impact(containers, Catalog)[1]
        /\ \A f \in ReportFiles :
              ~is_combined => files[f].table = generate_table_report(impact_reports)
        /\ \A f \in DOMAIN files :
              IF files[f] = Cut
              THEN status = "raised"
              ELSE files[f] = DerivedFrom(impact_reports, f)

\* Records that are not in rank order, at the statistics menu, after reports
\* of two minutes, a consolidated export and a graph export were written.
C13_Witness ==
    /\ Running("gather_statistics")
    /\ SortedByRank(impact_reports) # impact_reports
    /\ ~is_combined
    /\ \E f, g \in ReportFiles : f.stamp # g.stamp
    /\ \E f \in DOMAIN files : f.stem = Chars["consolidated"] /\ files[f] # Cut
    /\ graph_filename \in DOMAIN files
    /\ files[graph_filename] # Cut

\* C14: every record's criticality is high, medium, low or unknown, for every
\* catalog that can be loaded, the unedited template included; a record has
\* rank 4 and the label "Unknown impact" only if its criticality is unknown.
C14_CriticalityInEnum ==
    Assessed =>
        \A i \in 1..Len(impact_reports) :
            /\ impact_reports[i].criticality \in {"high", "medium", "low", "unknown"}
            /\ (impact_reports[i].criticality_sort = 4
                 \/ impact_reports[i].impact = "Unknown impact")
                => impact_reports[i].criticality = "unknown"

====
